---- MODULE Spec2Model ----
(***************************************************************************)
(* Model of the Wav2Lip video-to-video lip-sync engine                     *)
(* (src/wav2lip-video/video_inference.py, utils.py, config.py).            *)
(*                                                                         *)
(* The module holds several specifications over one set of variables:      *)
(*   SpecChunk  - the mel chunking loop of process_video                   *)
(*   SpecDetect - detect_faces                                             *)
(*   SpecOOM    - detect_faces with a detector that always raises          *)
(*   SpecSmooth - get_smoothened_boxes                                     *)
(*   SpecBlend  - compositing of one pixel of a face box                   *)
(*   Spec       - runs of process_video on one processor                   *)
(*   SpecServe  - concurrent /process requests of app.py                   *)
(*   SpecComposite - compositing of whole frames into the output video     *)
(*   SpecBatch  - calls of process_batch_from_config on one BatchProcessor *)
(*                (src/wav2lip-video/batch_process.py)                     *)
(*   SpecAvatar - calls of generate_avatars on one AvatarAgent             *)
(*                (src/agents/avatar.py)                                   *)
(* Variables that a specification does not use keep their initial value.   *)
(***************************************************************************)
EXTENDS Integers, Sequences, FiniteSets, TLC

(***************************************************************************)
(* Bounds of the model                                                     *)
(***************************************************************************)
\* largest number of columns of the mel spectrogram (len(mel[0])) in the
\* specification of the chunking loop
MaxMelLen == 80
\* frame rates are the integers 1..MaxFps; for these and MaxMelLen < 96 the
\* double-precision int(i * (80. / fps)) equals floor(80 * i / fps)
MaxFps == 26

\* largest number of frames decoded from the face video
MaxFrames == 3
\* height and width of the decoded frames (image.shape[0], image.shape[1])
FrameH == 24
FrameW == 10
\* largest params['face_det_batch_size'] in the specification of
\* detect_faces
MaxDetBatch == 16

\* largest number of videos listed in a batch config
MaxVideos == 3
\* largest number of calls of process_batch_from_config on one BatchProcessor
MaxBatchCalls == 2
\* largest number of audio files handed to one call of generate_avatars
MaxAudio == 2
\* largest number of calls of generate_avatars on one AvatarAgent
MaxAvatarCalls == 2

\* largest number of boxes in the specification of get_smoothened_boxes
MaxSmoothLen == 6
\* largest feather_amount in the specification of the compositor; up to 6
\* the weights computed here are bit for bit those of the float64 ramps
\* of np.linspace stored into the float32 mask
MaxFeather == 4

(***************************************************************************)
(* Program constants                                                       *)
(***************************************************************************)
\* config.DEFAULT_PARAMS['mel_step_size']
mel_step_size == 16
\* numerator of mel_idx_multiplier = 80. / fps
MelRate == 80

\* get_smoothened_boxes(boxes, T=5)
SmoothT == 5
\* largest value of a pixel (np.uint8)
MaxPixel == 255

(***************************************************************************)
(* Inputs of the model                                                     *)
(***************************************************************************)
\* the detector found no face in the image (rect is None)
None == <<-1, -1, -1, -1>>
\* rectangles <<x1, y1, x2, y2>> the detector can return for a frame
Rects == {<<2, 1, 6, 5>>, <<3, 2, 8, 23>>}
\* params['pads'], <<top, bottom, left, right>>
RunPads == <<0, 2, 0, 0>>
\* manual boxes <<y1, y2, x1, x2>> a caller can pass as params['box']
\* the second one reaches beyond a frame of FrameH x FrameW
ManualBoxes == {<<1, 5, 2, 7>>, <<0, FrameH + 6, 0, FrameW + 2>>}
\* detector rectangles <<x1, y1, x2, y2>> of the frames whose boxes are
\* smoothed; the last one is one pixel wide and high, in the bottom right
\* corner of the frame
SmoothRects == {<<0, 0, 4, 4>>, <<1, 2, 5, 7>>, <<3, 3, 8, 8>>,
                <<FrameW - 1, FrameH - 1, FrameW, FrameH>>}
\* heights and widths (y2 - y1, x2 - x1) of the face boxes composited
BlendHeights == {9, 10, 10 * MaxFeather}
BlendWidths == {MaxFeather - 1, MaxFeather + 1}
\* frame rates of the face videos of a run
RunFps == {25}
\* len(mel[0]) of the audio of a run: 2, 3 and 4 windows at 25 fps
RunMelLens == {16, 20, 24}
\* params['face_det_batch_size'] and params['wav2lip_batch_size'] of a run
RunDetBatchSizes == {1, 2}
RunGenBatchSizes == {1, 2, 3}

(***************************************************************************)
(* Python helpers                                                          *)
(***************************************************************************)
Min(a, b) == IF a <= b THEN a ELSE b
Max(a, b) == IF a >= b THEN a ELSE b

\* Python slice bound: a negative index counts from the end, and the
\* result is clipped to [0, n]
PyIndex(k, n) == IF k < 0 THEN Max(0, k + n) ELSE Min(k, n)

\* seq[a:b] as the half-open range of positions <<lo, hi>> it selects
\* (0-based; hi <= lo is the empty slice)
PySlice(a, b, n) == <<PyIndex(a, n), Max(PyIndex(a, n), PyIndex(b, n))>>

\* ceil(a / b) for a >= 0, b > 0
CeilDiv(a, b) == (a + b - 1) \div b

(***************************************************************************)
(* State                                                                   *)
(***************************************************************************)
VARIABLES
    \* -- mel chunking loop (process_video, "Create mel chunks") --
    mel_len,        \* len(mel[0])
    fps,            \* frame rate used for mel_idx_multiplier
    i,              \* loop counter
    mel_chunks,     \* windows appended so far, each <<first column, end column>>
    chunk_pc,       \* "loop" while the while-True loop runs, "done" after break
    \* -- one run of process_video --
    pc,             \* position of the run in process_video
    error,          \* the exception that ended the run, "" if none
    n_frames,       \* len(frames)
    is_wav,         \* audio_source_path.endswith('.wav')
    mel_kind,       \* "finite", "nan" or "inf": what the mel matrix contains
    events,         \* calls the run has made so far, in order
    \* -- detect_faces --
    static,         \* params['static']
    detect_every_n, \* params['detect_every_n']
    nosmooth,       \* params['nosmooth']
    box,            \* params['box'], <<y1, y2, x1, x2>>
    face_det_batch_size, \* params['face_det_batch_size']
    batch_size,     \* the local batch_size of detect_faces, halved on OOM
    frames_to_detect, \* indices of the frames handed to the detector
    predictions,    \* detector results of the current attempt
    face_det_results, \* per frame, the coordinates <<y1, y2, x1, x2>>
    \* -- prepare_datagen and the inference loop --
    wav2lip_batch_size, \* params['wav2lip_batch_size']
    gen_calls,      \* batches passed to the generator so far
    written,        \* frames written to the video writer, in order
    \* -- state that outlives a run --
    model,          \* self.model: "None", "fresh" (a Wav2Lip() without the
                    \* checkpoint weights) or "loaded"
    model_loads,    \* number of checkpoints read by torch.load so far
    temp_dir,       \* names of the files in config.TEMP_DIR
    output,         \* "none" or "muxed": the file at output_path of this run
    returned,       \* what process_video returned, "" while it has not
    \* -- get_smoothened_boxes --
    orig_boxes,     \* the boxes passed in
    boxes,          \* the array smoothed in place
    smooth_i,       \* loop counter i
    smooth_pc,      \* "loop" while the for loop runs, "done" at return
    \* -- compositing of one pixel of a face box (376-398) --
    box_h,          \* y2 - y1
    box_w,          \* x2 - x1
    row,            \* row of the pixel inside the box
    col,            \* column of the pixel inside the box
    mask,           \* mask[row, col], a float32
    orig,           \* original_face[row, col]
    crop,           \* p[row, col], the synthesized pixel
    blended,        \* blended[row, col]
    blend_pc,       \* "mask", "blend", "done" or "error"
    \* -- concurrent /process requests of the web application (app.py) --
    processor,      \* the global processor: 0 for None, else the request
                    \* that created the instance
    inst_model,     \* self.model of each processor instance
    torch_loads,    \* number of checkpoints read by torch.load so far
    temp_audio,     \* TEMP_DIR/temp_audio.wav: 0 if absent, else the request
                    \* whose audio it holds
    result_avi,     \* TEMP_DIR/result.avi: 0 if absent, else the request
                    \* whose writer created it
    th_pc,          \* position of each request
    th_proc,        \* the processor instance get_processor returned
    th_wav,         \* the audio source of the request is a wav file
    th_mel,         \* the request whose audio the mel was computed from
    th_infer,       \* self.model at the time of the generator calls
    th_out,         \* <<video, audio>>: whose files the mux combined
    th_error,       \* the exception that ended the request, "" if none
    \* -- compositing of whole frames (prepare_datagen 202-212 and the
    \*    loop of process_video 376-398) --
    src_frames,     \* frames: the loaded source frames, as pixel arrays
    comp_coords,    \* per frame, the face box <<y1, y2, x1, x2>>
    comp_n,         \* len(mel_chunks)
    comp_k,         \* the next output index
    out_frames,     \* the frames handed to out.write, in order
    comp_pc,        \* "loop", "done" or "error"
    \* -- BatchProcessor (batch_process.py) --
    self_results,   \* self.results
    batch_k,        \* len(videos) of the config of the current call
    batch_i,        \* videos of the current call handled so far
    batch_attempts, \* calls of process_video in the current call, in order:
                    \* <<position in the config, returned without raising>>
    batch_file,     \* the list dumped to batch_results.json
    batch_calls,    \* calls of process_batch_from_config on this object
    batch_pc,       \* "idle", "loop" or "saved"
    \* -- AvatarAgent (src/agents/avatar.py) --
    sagemaker_unavailable, \* self._sagemaker_unavailable
    audio_files,    \* per audio file of the current call, what SageMaker
                    \* and the local generation would do for it
    av_i,           \* audio files of the current call handled so far
    av_results,     \* the local list results
    av_log,         \* generations attempted in the current call, in order
    av_failures,    \* messages of the exceptions SageMaker generation has
                    \* raised on this agent
    av_calls,       \* calls of generate_avatars on this agent
    av_pc           \* "idle", "loop", "returned" or "raised"

chunkVars == <<mel_len, fps, i, mel_chunks, chunk_pc>>
inputVars == <<n_frames, is_wav, mel_kind>>
detectVars == <<static, detect_every_n, nosmooth, box, face_det_batch_size,
                batch_size, frames_to_detect, predictions, face_det_results>>
genVars == <<wav2lip_batch_size, gen_calls, written>>
sharedVars == <<model, model_loads, temp_dir>>
runVars == <<pc, error, events, inputVars, detectVars, genVars, sharedVars,
             output, returned>>
outVars == <<output, returned>>
smoothVars == <<orig_boxes, boxes, smooth_i, smooth_pc>>
blendVars == <<box_h, box_w, row, col, mask, orig, crop, blended, blend_pc>>
serveVars == <<processor, inst_model, torch_loads, temp_audio, result_avi,
               th_pc, th_proc, th_wav, th_mel, th_infer, th_out, th_error>>
compVars == <<src_frames, comp_coords, comp_n, comp_k, out_frames, comp_pc>>
batchVars == <<self_results, batch_k, batch_i, batch_attempts, batch_file,
               batch_calls, batch_pc>>
avatarVars == <<sagemaker_unavailable, audio_files, av_i, av_results, av_log,
                av_failures, av_calls, av_pc>>
toolVars == <<batchVars, avatarVars>>
auxVars == <<smoothVars, blendVars, serveVars, compVars, toolVars>>
vars == <<chunkVars, runVars, smoothVars, blendVars, serveVars, compVars,
          toolVars>>

(***************************************************************************)
(* Mel chunking (video_inference.py 305-315)                               *)
(***************************************************************************)
\* start_idx = int(i * mel_idx_multiplier), mel_idx_multiplier = 80. / fps
start_idx_ceil(k, f) == CeilDiv(k * MelRate, f)
start_idx(k, f) == (k * MelRate) \div f

\* a window of columns [lo, hi) of the mel matrix; clamped records which
\* branch of the loop appended it
Window(r, c) == [lo |-> r[1], hi |-> r[2], clamped |-> c]

\* the clamped window mel[:, len(mel[0]) - mel_step_size:]
ClampedWindow_short(L) == Window(PySlice(L - mel_step_size + 1, L, L), TRUE)
ClampedWindow(L) == Window(PySlice(L - mel_step_size, L, L), TRUE)

\* the regular window mel[:, start_idx : start_idx + mel_step_size]
RegularWindow(s, L) == Window(PySlice(s, s + mel_step_size, L), FALSE)

\* the processor after __init__ (self.model = None), TEMP_DIR created
\* empty by config.py, no run started
ProcessorInit ==
    /\ model = "None"
    /\ model_loads = 0
    /\ temp_dir = {}

\* params['box'] of config.DEFAULT_PARAMS: no manual box
NoBox == <<-1, -1, -1, -1>>

NoDetection ==
    /\ static = FALSE
    /\ detect_every_n = 1
    /\ nosmooth = FALSE
    /\ box = NoBox
    /\ face_det_batch_size = 0
    /\ batch_size = 0
    /\ frames_to_detect = <<>>
    /\ predictions = <<>>
    /\ face_det_results = <<>>

NoGeneration ==
    /\ wav2lip_batch_size = 0
    /\ gen_calls = 0
    /\ written = <<>>

NoRun ==
    /\ pc = "idle"
    /\ error = ""
    /\ events = <<>>
    /\ n_frames = 0
    /\ is_wav = FALSE
    /\ mel_kind = "finite"
    /\ output = "none"
    /\ returned = ""
    /\ NoDetection
    /\ NoGeneration

\* a float32: the value m * 2^e with 2^23 <= m < 2^24, or zero
F32(m, e) == [m |-> m, e |-> e]
F32Zero == F32(0, 0)
F32One == F32(8388608, -23)

\* the requests served concurrently
Requests == {1, 2}

\* no request is being served
ServeIdle ==
    /\ processor = 0
    /\ inst_model = [p \in Requests |-> "None"]
    /\ torch_loads = 0
    /\ temp_audio = 0
    /\ result_avi = 0
    /\ th_pc = [t \in Requests |-> "idle"]
    /\ th_proc = [t \in Requests |-> 0]
    /\ th_wav = [t \in Requests |-> FALSE]
    /\ th_mel = [t \in Requests |-> 0]
    /\ th_infer = [t \in Requests |-> ""]
    /\ th_out = [t \in Requests |-> <<0, 0>>]
    /\ th_error = [t \in Requests |-> ""]

\* no frame is being composited
CompIdle ==
    /\ src_frames = <<>>
    /\ comp_coords = <<>>
    /\ comp_n = 0
    /\ comp_k = 0
    /\ out_frames = <<>>
    /\ comp_pc = "idle"

\* the batch processor as constructed (batch_process.py 26-27)
BatchIdle ==
    /\ self_results = <<>>
    /\ batch_k = 0
    /\ batch_i = 0
    /\ batch_attempts = <<>>
    /\ batch_file = <<>>
    /\ batch_calls = 0
    /\ batch_pc = "idle"

\* the avatar agent as constructed (avatar.py 47)
AvatarIdle ==
    /\ sagemaker_unavailable = FALSE
    /\ audio_files = <<>>
    /\ av_i = 0
    /\ av_results = <<>>
    /\ av_log = <<>>
    /\ av_failures = {}
    /\ av_calls = 0
    /\ av_pc = "idle"

ToolsIdle == BatchIdle /\ AvatarIdle

\* no smoothing call is in progress
SmoothIdle ==
    /\ orig_boxes = <<>>
    /\ boxes = <<>>
    /\ smooth_i = 0
    /\ smooth_pc = "idle"

\* no pixel is being composited
BlendIdle ==
    /\ box_h = 0
    /\ box_w = 0
    /\ row = 0
    /\ col = 0
    /\ mask = F32One
    /\ orig = 0
    /\ crop = 0
    /\ blended = 0
    /\ blend_pc = "idle"

ChunkInit ==
    /\ SmoothIdle
    /\ BlendIdle
    /\ ServeIdle
    /\ CompIdle
    /\ ToolsIdle
    /\ ProcessorInit
    /\ NoRun
    /\ mel_len \in 0..MaxMelLen
    /\ fps \in 1..MaxFps
    /\ i = 0
    /\ mel_chunks = <<>>
    /\ chunk_pc = "loop"

\* one iteration that appends a regular window and increments i
ChunkAppend ==
    /\ chunk_pc = "loop"
    /\ ~(start_idx(i, fps) + mel_step_size > mel_len)
    /\ mel_chunks' = Append(mel_chunks, RegularWindow(start_idx(i, fps), mel_len))
    /\ i' = i + 1
    /\ UNCHANGED <<mel_len, fps, chunk_pc>>

\* the iteration that appends the clamped window and breaks
ChunkClamp ==
    /\ chunk_pc = "loop"
    /\ start_idx(i, fps) + mel_step_size > mel_len
    /\ mel_chunks' = Append(mel_chunks, ClampedWindow(mel_len))
    /\ chunk_pc' = "done"
    /\ UNCHANGED <<mel_len, fps, i>>

ChunkNext ==
    \/ pc = "idle" /\ ChunkAppend /\ UNCHANGED runVars /\ UNCHANGED auxVars
    \/ pc = "idle" /\ ChunkClamp /\ UNCHANGED runVars /\ UNCHANGED auxVars

SpecChunk == ChunkInit /\ [][ChunkNext]_vars
\* the loop is sequential code: an enabled iteration is eventually executed
FairSpecChunk == SpecChunk /\ WF_vars(ChunkNext)

(***************************************************************************)
(* detect_faces (video_inference.py 81-182)                                *)
(***************************************************************************)
\* the run ends with an exception
Raise(e) ==
    /\ pc' = "raised"
    /\ error' = e

Event(e, a) == [ev |-> e, arg |-> a]

\* frames_to_detect, as indices into frames (103-112)
FramesToDetect_all(n, st, every_n) ==
    IF every_n > 1
    THEN [k \in 1..CeilDiv(n, every_n) |-> (k - 1) * every_n]
    ELSE [k \in 1..n |-> k - 1]
FramesToDetect(n, st, every_n) ==
    IF st THEN <<0>>
    ELSE IF every_n > 1
         THEN [k \in 1..CeilDiv(n, every_n) |-> (k - 1) * every_n]
         ELSE [k \in 1..n |-> k - 1]

\* detector rect plus padding, clamped to the image (150-155)
PadBox_unclamped(rect, pads) ==
    <<rect[1] - pads[3], rect[2] - pads[1], rect[3] + pads[4],
      rect[4] + pads[2]>>
PadBox(rect, pads) ==
    LET y1 == Max(0, rect[2] - pads[1])
        y2 == Min(FrameH, rect[4] + pads[2])
        x1 == Max(0, rect[1] - pads[3])
        x2 == Min(FrameW, rect[3] + pads[4])
    IN  <<x1, y1, x2, y2>>

\* the padded boxes <<x1, y1, x2, y2>> handed to get_smoothened_boxes
SmoothBoxes == {PadBox(r, RunPads) : r \in SmoothRects}

\* boxes for all n frames from the detected ones (157-171)
ExpandBoxes_following(detected_boxes, n, st, every_n) ==
    IF st THEN [k \in 1..n |-> detected_boxes[1]]
    ELSE IF every_n > 1
         THEN [k \in 1..n |->
                 detected_boxes[Min(CeilDiv(k - 1, every_n),
                                    Len(detected_boxes) - 1) + 1]]
         ELSE detected_boxes
ExpandBoxes(detected_boxes, n, st, every_n) ==
    IF st THEN [k \in 1..n |-> detected_boxes[1]]
    ELSE IF every_n > 1
         THEN [k \in 1..n |->
                 detected_boxes[Min((k - 1) \div every_n,
                                    Len(detected_boxes) - 1) + 1]]
         ELSE detected_boxes

RECURSIVE SumCoord(_, _, _, _)
\* sum of coordinate c of boxes[lo+1 .. hi]
SumCoord(bs, c, lo, hi) ==
    IF lo >= hi THEN 0 ELSE bs[hi][c] + SumCoord(bs, c, lo, hi - 1)

\* np.mean(window, axis=0) stored into the integer array boxes: the
\* fraction is dropped
WindowMean(bs, w) ==
    [c \in 1..4 |-> SumCoord(bs, c, w[1], w[2]) \div (w[2] - w[1])]

\* the window of iteration k (0-based) of get_smoothened_boxes (utils.py
\* 109-112)
SmoothWindow(k, n, T) ==
    IF k + T > n THEN PySlice(n - T, n, n) ELSE PySlice(k, k + T, n)

\* one iteration of get_smoothened_boxes: boxes[k] = mean(window), in place
SmoothStep(bs, k, T) ==
    [bs EXCEPT ![k + 1] = WindowMean(bs, SmoothWindow(k, Len(bs), T))]

RECURSIVE SmoothFrom(_, _, _)
SmoothFrom(bs, k, T) ==
    IF k >= Len(bs) THEN bs ELSE SmoothFrom(SmoothStep(bs, k, T), k + 1, T)

\* utils.get_smoothened_boxes
get_smoothened_boxes(bs, T) == SmoothFrom(bs, 0, T)

\* get_smoothened_boxes is called on 1..MaxSmoothLen boxes
SmoothInit ==
    /\ ProcessorInit
    /\ NoRun
    /\ BlendIdle
    /\ ServeIdle
    /\ CompIdle
    /\ ToolsIdle
    /\ mel_len = 0
    /\ fps = 25
    /\ i = 0
    /\ mel_chunks = <<>>
    /\ chunk_pc = "idle"
    /\ \E n \in 1..MaxSmoothLen : orig_boxes \in [1..n -> SmoothBoxes]
    /\ boxes = orig_boxes
    /\ smooth_i = 0
    /\ smooth_pc = "loop"

\* one iteration of the for loop (utils.py 108-113)
SmoothIter ==
    /\ smooth_pc = "loop"
    /\ smooth_i < Len(boxes)
    /\ boxes' = SmoothStep(boxes, smooth_i, SmoothT)
    /\ smooth_i' = smooth_i + 1
    /\ UNCHANGED <<orig_boxes, smooth_pc>>

\* return boxes (utils.py 114)
SmoothReturn ==
    /\ smooth_pc = "loop"
    /\ smooth_i = Len(boxes)
    /\ smooth_pc' = "done"
    /\ UNCHANGED <<orig_boxes, boxes, smooth_i>>

SmoothNext ==
    \/ SmoothIter /\ UNCHANGED <<chunkVars, runVars, blendVars, serveVars,
                                  compVars, toolVars>>
    \/ SmoothReturn /\ UNCHANGED <<chunkVars, runVars, blendVars, serveVars,
                                  compVars, toolVars>>

SpecSmooth == SmoothInit /\ [][SmoothNext]_vars

\* (y1, y2, x1, x2) of a box [x1, y1, x2, y2] (176-179)
Coords(b) == <<b[2], b[4], b[1], b[3]>>

\* if not nosmooth and not static (173)
ShouldSmooth_always(nosm, st) == TRUE
ShouldSmooth(nosm, st) == ~nosm /\ ~st

\* the results of detect_faces once every prediction is a rectangle
\* (150-179)
DetectResults(preds, n, st, every_n, nosm, pads) ==
    LET detected_boxes == [k \in 1..Len(preds) |-> PadBox(preds[k], pads)]
        expanded == ExpandBoxes(detected_boxes, n, st, every_n)
        bxs == IF ShouldSmooth(nosm, st)
               THEN get_smoothened_boxes(expanded, SmoothT)
               ELSE expanded
    IN  [k \in 1..n |-> Coords(bxs[k])]

\* batch_size //= 2 (133)
HalveBatch_decrement(b) == b - 1
HalveBatch(b) == b \div 2

\* some prediction is None (142-148)
FaceMissing_first(preds) == preds[1] = None
FaceMissing(preds) == \E k \in 1..Len(preds) : preds[k] = None

\* the batch frames_to_detect[i:i + batch_size] of the current attempt,
\* i being the number of predictions collected so far
DetectBatchFrames ==
    LET r == PySlice(Len(predictions), Len(predictions) + batch_size,
                     Len(frames_to_detect))
    IN  [k \in 1..(r[2] - r[1]) |-> frames_to_detect[r[1] + k]]

\* a manual box is supplied: box and box[0] != -1 (98)
ManualBox_never(bx) == FALSE
ManualBox(bx) == bx[1] # -1

\* entry of detect_faces (98-118): a manual box returns at once, otherwise
\* the frames to detect are selected and the first attempt starts
EnterDetect(BatchSizes) ==
    /\ pc = "detect_faces"
    /\ \E st \in BOOLEAN, every_n \in 1..2, b \in BatchSizes,
          bx \in {NoBox} \cup ManualBoxes :
          /\ static' = st
          /\ detect_every_n' = every_n
          /\ face_det_batch_size' = b
          /\ batch_size' = b
          /\ box' = bx
          /\ IF ManualBox(bx)
             THEN /\ face_det_results' = [k \in 1..n_frames |-> bx]
                  /\ pc' = "load_model"
                  /\ UNCHANGED <<frames_to_detect, events>>
             ELSE /\ frames_to_detect' = FramesToDetect(n_frames, st, every_n)
                  /\ events' = Append(events, Event("attempt", b))
                  /\ pc' = "detect"
                  /\ UNCHANGED face_det_results
    /\ UNCHANGED <<error, nosmooth, predictions, inputVars, genVars,
                   sharedVars, outVars, chunkVars>>

\* one detector.get_detections_for_batch call that returns (124-126)
DetectBatch ==
    /\ pc = "detect"
    /\ Len(predictions) < Len(frames_to_detect)
    /\ \E res \in [1..Len(DetectBatchFrames) -> Rects \cup {None}] :
          /\ predictions' = predictions \o res
          /\ events' = events \o <<Event("detector", DetectBatchFrames),
                                    Event("detections", res)>>
    /\ UNCHANGED <<pc, error, static, detect_every_n, nosmooth, box,
                   face_det_batch_size, batch_size, frames_to_detect,
                   face_det_results, inputVars, genVars, sharedVars, outVars,
                   chunkVars>>

\* predictions = [] at the start of every attempt (122)
ResetPredictions_keep(preds) == preds
ResetPredictions(preds) == <<>>

\* one detector call that raises RuntimeError (127-135): fatal at batch
\* size 1, otherwise the batch size is halved and the attempt restarts
DetectOOM ==
    /\ pc = "detect"
    /\ Len(predictions) < Len(frames_to_detect)
    /\ IF batch_size = 1
       THEN /\ Raise("DetectorOOM")
            /\ events' = Append(events, Event("detector", DetectBatchFrames))
            /\ UNCHANGED <<batch_size, predictions>>
       ELSE /\ batch_size' = HalveBatch(batch_size)
            /\ predictions' = ResetPredictions(predictions)
            /\ events' = events \o <<Event("detector", DetectBatchFrames),
                                      Event("attempt", HalveBatch(batch_size))>>
            /\ UNCHANGED <<pc, error>>
    /\ UNCHANGED <<static, detect_every_n, nosmooth, box,
                   face_det_batch_size, frames_to_detect, face_det_results,
                   inputVars, genVars, sharedVars, outVars, chunkVars>>

\* after the detection loop (138-182): the first frame without a face is
\* saved as faulty_frame.jpg and ends the run; otherwise the boxes are
\* padded, expanded to all frames and smoothed
ProcessDetections ==
    /\ pc = "detect"
    /\ Len(predictions) = Len(frames_to_detect)
    /\ IF FaceMissing(predictions)
       THEN /\ temp_dir' = temp_dir \cup {"faulty_frame.jpg"}
            /\ Raise("FaceNotDetected")
            /\ UNCHANGED <<nosmooth, face_det_results>>
       ELSE /\ \E nosm \in BOOLEAN :
                  /\ nosmooth' = nosm
                  /\ face_det_results' =
                        DetectResults(predictions, n_frames, static,
                                      detect_every_n, nosm, RunPads)
            /\ pc' = "load_model"
            /\ UNCHANGED <<error, temp_dir>>
    /\ UNCHANGED <<events, static, detect_every_n, box, face_det_batch_size,
                   batch_size, frames_to_detect, predictions, inputVars,
                   genVars, model, model_loads, outVars, chunkVars>>

\* no chunking loop has run
ChunkIdle ==
    /\ mel_len = 0
    /\ fps = 25
    /\ i = 0
    /\ mel_chunks = <<>>
    /\ chunk_pc = "idle"

\* detect_faces called on 1..MaxFrames frames
DetectInit ==
    /\ SmoothIdle
    /\ BlendIdle
    /\ ServeIdle
    /\ CompIdle
    /\ ToolsIdle
    /\ ProcessorInit
    /\ ChunkIdle
    /\ pc = "detect_faces"
    /\ error = ""
    /\ events = <<>>
    /\ n_frames \in 1..MaxFrames
    /\ is_wav = FALSE
    /\ mel_kind = "finite"
    /\ output = "none"
    /\ returned = ""
    /\ NoDetection
    /\ NoGeneration

DetectNext ==
    \/ EnterDetect(1..MaxDetBatch) /\ UNCHANGED auxVars
    \/ DetectBatch /\ UNCHANGED auxVars
    \/ DetectOOM /\ UNCHANGED auxVars
    \/ ProcessDetections /\ UNCHANGED auxVars

SpecDetect == DetectInit /\ [][DetectNext]_vars

\* detect_faces with a detector that raises RuntimeError on every call
OOMNext ==
    \/ EnterDetect(1..MaxDetBatch) /\ UNCHANGED auxVars
    \/ DetectOOM /\ UNCHANGED auxVars

SpecOOM == DetectInit /\ [][OOMNext]_vars
\* detect_faces is sequential code: an enabled step is eventually taken
FairSpecOOM == SpecOOM /\ WF_vars(OOMNext)

(***************************************************************************)
(* prepare_datagen (video_inference.py 184-241)                            *)
(***************************************************************************)
\* the (frame, face box, mel chunk) of every output index (202-212)
DatagenItems(nf, n_chunks, results, st) ==
    [k \in 1..n_chunks |->
        LET idx == IF st THEN 0 ELSE (k - 1) % nf
        IN  [out |-> k - 1, frame |-> idx, coords |-> results[idx + 1],
             mel |-> k - 1]]

\* the batches the generator yields: full batches while the input lasts
\* (214-227), then the rest (229-241)
prepare_datagen_no_rest(nf, n_chunks, results, bs, st) ==
    [j \in 1..(n_chunks \div bs) |->
        SubSeq(DatagenItems(nf, n_chunks, results, st),
               (j - 1) * bs + 1, j * bs)]

\* the loop over the items (202-227): an item is appended to the batch
\* being assembled, acc, which is yielded and emptied once it holds
\* batch_size items; what is left at the end is yielded last (229-241)
\* len(img_batch) >= batch_size (214)
BatchFull_over(n, bs) == n > bs
BatchFull(n, bs) == n >= bs

RECURSIVE Accumulate(_, _, _)
Accumulate(items, acc, bs) ==
    IF items = <<>> THEN (IF Len(acc) > 0 THEN <<acc>> ELSE <<>>)
    ELSE IF BatchFull(Len(acc) + 1, bs)
         THEN <<Append(acc, Head(items))>>
                  \o Accumulate(Tail(items), <<>>, bs)
         ELSE Accumulate(Tail(items), Append(acc, Head(items)), bs)

prepare_datagen(nf, n_chunks, results, bs, st) ==
    Accumulate(DatagenItems(nf, n_chunks, results, st), <<>>, bs)

\* rows and columns of the crop f[y1:y2, x1:x2] of a frame
CropH(c) == PySlice(c[1], c[2], FrameH)[2] - PySlice(c[1], c[2], FrameH)[1]
CropW(c) == PySlice(c[3], c[4], FrameW)[2] - PySlice(c[3], c[4], FrameW)[1]

\* cv2.resize raises on an empty image (207)
ResizeFails(c) == CropH(c) = 0 \/ CropW(c) = 0

\* feather_amount = min(15, (y2 - y1) // 10) (385)
feather_amount(c) == Min(15, (c[2] - c[1]) \div 10)

\* compositing raises when the column ramps do not fit the mask (390-391)
\* or the mask and the crop of the frame differ in shape (394-395)
\* the ramp of length feather_amount does not broadcast onto a narrower
\* box (390-391)
MaskFails(c) == feather_amount(c) > 0 /\ c[4] - c[3] < feather_amount(c)

CompositeFails(c) ==
    \/ MaskFails(c)
    \/ CropH(c) # c[2] - c[1]
    \/ CropW(c) # c[4] - c[3]

(***************************************************************************)
(* process_video (video_inference.py 243-415)                              *)
(***************************************************************************)
\* a file name contains one of the keep patterns (utils.py 266-269)
ShouldKeep(filename, keep_patterns) ==
    \E pat \in keep_patterns :
        /\ pat = "faulty_frame"
        /\ filename = "faulty_frame.jpg"

\* utils.cleanup_temp_files: the files left in temp_dir
cleanup_temp_files(files, keep_patterns) ==
    {f \in files : ShouldKeep(f, keep_patterns)}

\* process_video is called
RunStart ==
    /\ ChunkIdle
    /\ pc = "start"
    /\ error = ""
    /\ events = <<>>
    /\ n_frames = 0
    /\ is_wav = FALSE
    /\ mel_kind = "finite"
    /\ output = "none"
    /\ returned = ""
    /\ NoDetection
    /\ NoGeneration

RunInit ==
    /\ SmoothIdle
    /\ BlendIdle
    /\ ServeIdle
    /\ CompIdle
    /\ ToolsIdle
    /\ ProcessorInit
    /\ RunStart

\* validate_video_file and load_video_frames (258-279)
ValidateVideo ==
    /\ pc = "start"
    /\ \/ /\ Raise("InvalidVideo")
          /\ UNCHANGED <<n_frames, fps>>
       \/ /\ n_frames' \in 1..MaxFrames
          /\ fps' \in RunFps
          /\ pc' = "audio"
          /\ UNCHANGED error
    /\ UNCHANGED <<events, is_wav, mel_kind, detectVars, genVars, sharedVars,
                   outVars, mel_len, i, mel_chunks, chunk_pc>>

\* the audio is extracted to temp_audio.wav unless the source is a wav
\* file, then validate_audio_file (281-291); a failed extraction is taken
\* to leave no file
ExtractAudio ==
    /\ pc = "audio"
    /\ \E wav \in BOOLEAN :
          /\ is_wav' = wav
          /\ IF wav
             THEN /\ UNCHANGED temp_dir
                  /\ \/ Raise("InvalidAudioFile")
                     \/ pc' = "mel" /\ UNCHANGED error
             ELSE \/ /\ temp_dir' = temp_dir \cup {"temp_audio.wav"}
                     /\ pc' = "mel"
                     /\ UNCHANGED error
                  \/ /\ Raise("ExtractFailed")
                     /\ UNCHANGED temp_dir
    /\ UNCHANGED <<events, n_frames, mel_kind, detectVars, genVars, model,
                   model_loads, outVars, chunkVars>>

\* np.isnan(mel.reshape(-1)).sum() > 0 (299)
HasNaN(kind) == kind = "nan"

\* load_wav, melspectrogram and the NaN check (293-308)
LoadMel ==
    /\ pc = "mel"
    /\ \E kind \in {"finite", "nan", "inf"}, L \in RunMelLens :
          /\ mel_kind' = kind
          /\ mel_len' = L
          /\ IF HasNaN(kind)
             THEN /\ Raise("MelNaN")
                  /\ UNCHANGED chunk_pc
             ELSE /\ pc' = "chunk"
                  /\ chunk_pc' = "loop"
                  /\ UNCHANGED error
    /\ events' = Append(events, Event("nan_check", 0))
    /\ UNCHANGED <<n_frames, is_wav, detectVars, genVars, sharedVars,
                   outVars, fps, i, mel_chunks>>

\* frames = frames[:len(mel_chunks)] (320)
TrimFrames ==
    /\ pc = "chunk"
    /\ chunk_pc = "done"
    /\ n_frames' = PySlice(0, Len(mel_chunks), n_frames)[2]
    /\ pc' = "detect_faces"
    /\ UNCHANGED <<error, events, is_wav, mel_kind, detectVars, genVars,
                   sharedVars, outVars, chunkVars>>

\* self.load_model() (336, 54-79): nothing is done unless self.model is
\* None (56-57). Otherwise torch.load reads the checkpoint (61-68), which
\* can raise; self.model becomes a fresh Wav2Lip() (70); then
\* checkpoint["state_dict"] and load_state_dict (71-75) can raise, which
\* leaves the fresh network in self.model
LoadModel ==
    /\ pc = "load_model"
    /\ events' = Append(events, Event("load_model", 0))
    /\ IF model # "None"
       THEN /\ pc' = "writer"
            /\ UNCHANGED <<error, model, model_loads>>
       ELSE \/ /\ Raise("CheckpointError")
               /\ UNCHANGED <<model, model_loads>>
            \/ /\ model' = "fresh"
               /\ model_loads' = model_loads + 1
               /\ Raise("StateDictError")
            \/ /\ model' = "loaded"
               /\ model_loads' = model_loads + 1
               /\ pc' = "writer"
               /\ UNCHANGED error
    /\ UNCHANGED <<inputVars, detectVars, genVars, temp_dir, outVars,
                   chunkVars>>

\* create_video_writer on TEMP_DIR/result.avi and the creation of the
\* batch generator (338-357)
OpenWriter ==
    /\ pc = "writer"
    /\ temp_dir' = temp_dir \cup {"result.avi"}
    /\ wav2lip_batch_size' \in RunGenBatchSizes
    /\ events' = Append(events, Event("writer", 0))
    /\ pc' = "generate"
    /\ UNCHANGED <<error, inputVars, detectVars, gen_calls, written,
                   model, model_loads, outVars, chunkVars>>

\* process_video calls prepare_datagen without its static argument
\* (351-357), which then is False
DatagenStatic == FALSE

\* the batches of this run
RunBatches ==
    prepare_datagen(n_frames, Len(mel_chunks), face_det_results,
                    wav2lip_batch_size, DatagenStatic)

\* the items of a batch that are composited and written before the first
\* one whose compositing raises
RECURSIVE WrittenOf(_)
WrittenOf(batch) ==
    IF batch = <<>> \/ CompositeFails(Head(batch).coords) THEN <<>>
    ELSE <<Head(batch)>> \o WrittenOf(Tail(batch))

WriteEvents_reversed(items) ==
    [k \in 1..Len(items) |-> Event("write", items[Len(items) + 1 - k].out)]
WriteEvents(items) == [k \in 1..Len(items) |-> Event("write", items[k].out)]

\* one iteration of the inference loop (359-398): the generator assembles
\* the next batch, the model is called on it, and every frame of the batch
\* is composited and written
GenBatch ==
    /\ pc = "generate"
    /\ gen_calls < Len(RunBatches)
    /\ LET batch == RunBatches[gen_calls + 1]
           done == WrittenOf(batch)
       IN  IF \E k \in 1..Len(batch) : ResizeFails(batch[k].coords)
           THEN /\ Raise("ResizeError")
                /\ UNCHANGED <<events, gen_calls, written>>
           ELSE \/ /\ Raise("GeneratorError")
                   /\ events' = Append(events, Event("generator", gen_calls))
                   /\ UNCHANGED <<gen_calls, written>>
                \/ /\ events' = Append(events, Event("generator", gen_calls))
                                    \o WriteEvents(done)
                   /\ written' = written \o done
                   /\ IF Len(done) < Len(batch)
                      THEN /\ Raise("CompositeError")
                           /\ UNCHANGED gen_calls
                      ELSE /\ gen_calls' = gen_calls + 1
                           /\ UNCHANGED <<pc, error>>
    /\ UNCHANGED <<inputVars, detectVars, wav2lip_batch_size, sharedVars,
                   outVars, chunkVars>>

\* exit codes of the mux command (subprocess.call, utils.py 154)
MuxExitCodes == {0, 1}

\* utils.merge_audio_video: True exactly when the command exits with 0
\* (utils.py 154-159)
merge_audio_video_ignore(ret) == TRUE
merge_audio_video(ret) == ret = 0

\* out.release() and merge_audio_video (400-410): a non-zero exit of the
\* mux command ends the run
Mux ==
    /\ pc = "generate"
    /\ gen_calls = Len(RunBatches)
    /\ \E ret \in MuxExitCodes :
          /\ events' = Append(events, Event("mux", ret))
          /\ IF merge_audio_video(ret)
             THEN /\ output' = "muxed"
                  /\ pc' = "cleanup"
                  /\ UNCHANGED error
             ELSE /\ Raise("MuxFailed")
                  /\ UNCHANGED output
    /\ UNCHANGED <<returned, inputVars, detectVars, genVars, sharedVars, chunkVars>>

\* the value process_video returns: the function ends after the cleanup
\* (415) without a return statement
process_video_result == "None"

\* cleanup_temp_files(config.TEMP_DIR, keep_patterns=['faulty_frame'])
\* (415), then process_video returns
Cleanup ==
    /\ pc = "cleanup"
    /\ temp_dir' = cleanup_temp_files(temp_dir, {"faulty_frame"})
    /\ pc' = "done"
    /\ returned' = process_video_result
    /\ UNCHANGED <<error, events, inputVars, detectVars, genVars, model,
                   model_loads, output, chunkVars>>

\* the next call of process_video on the same processor
NewRun ==
    /\ pc \in {"done", "raised"}
    /\ pc' = "start"
    /\ error' = ""
    /\ events' = <<>>
    /\ n_frames' = 0
    /\ is_wav' = FALSE
    /\ mel_kind' = "finite"
    /\ output' = "none"
    /\ returned' = ""
    /\ mel_len' = 0
    /\ fps' = 25
    /\ i' = 0
    /\ mel_chunks' = <<>>
    /\ chunk_pc' = "idle"
    /\ static' = FALSE
    /\ detect_every_n' = 1
    /\ nosmooth' = FALSE
    /\ box' = NoBox
    /\ face_det_batch_size' = 0
    /\ batch_size' = 0
    /\ frames_to_detect' = <<>>
    /\ predictions' = <<>>
    /\ face_det_results' = <<>>
    /\ wav2lip_batch_size' = 0
    /\ gen_calls' = 0
    /\ written' = <<>>
    /\ UNCHANGED sharedVars

RunNext ==
    \/ ValidateVideo /\ UNCHANGED auxVars
    \/ ExtractAudio /\ UNCHANGED auxVars
    \/ LoadMel /\ UNCHANGED auxVars
    \/ pc = "chunk" /\ ChunkAppend /\ UNCHANGED runVars /\ UNCHANGED auxVars
    \/ pc = "chunk" /\ ChunkClamp /\ UNCHANGED runVars /\ UNCHANGED auxVars
    \/ TrimFrames /\ UNCHANGED auxVars
    \/ EnterDetect(RunDetBatchSizes) /\ UNCHANGED auxVars
    \/ DetectBatch /\ UNCHANGED auxVars
    \/ DetectOOM /\ UNCHANGED auxVars
    \/ ProcessDetections /\ UNCHANGED auxVars
    \/ LoadModel /\ UNCHANGED auxVars
    \/ OpenWriter /\ UNCHANGED auxVars
    \/ GenBatch /\ UNCHANGED auxVars
    \/ Mux /\ UNCHANGED auxVars
    \/ Cleanup /\ UNCHANGED auxVars
    \/ NewRun /\ UNCHANGED auxVars

Spec == RunInit /\ [][RunNext]_vars

(***************************************************************************)
(* Concurrent /process requests (app.py 122-175): each request runs        *)
(* get_processor and then process_video on the instance it returns, in a   *)
(* thread of its own. The steps of process_video that touch no state       *)
(* shared between requests (frames, mel chunks, face detection) are left   *)
(* out; the steps on the processor, its model and the files of TEMP_DIR    *)
(* are kept, one action per read or write.                                 *)
(***************************************************************************)
ServeInit ==
    /\ SmoothIdle
    /\ BlendIdle
    /\ CompIdle
    /\ ToolsIdle
    /\ ProcessorInit
    /\ ChunkIdle
    /\ NoRun
    /\ processor = 0
    /\ inst_model = [p \in Requests |-> "None"]
    /\ torch_loads = 0
    /\ temp_audio = 0
    /\ result_avi = 0
    /\ th_pc = [t \in Requests |-> "get_processor"]
    /\ th_proc = [t \in Requests |-> 0]
    /\ th_wav \in [Requests -> BOOLEAN]
    /\ th_mel = [t \in Requests |-> 0]
    /\ th_infer = [t \in Requests |-> ""]
    /\ th_out = [t \in Requests |-> <<0, 0>>]
    /\ th_error = [t \in Requests |-> ""]

\* request t moves to position l
Goto(t, l) == th_pc' = [th_pc EXCEPT ![t] = l]

\* request t ends with an exception
ThRaise(t, e) ==
    /\ th_pc' = [th_pc EXCEPT ![t] = "raised"]
    /\ th_error' = [th_error EXCEPT ![t] = e]

\* if processor is None (app.py 45)
GetProcessorTest(t) ==
    /\ th_pc[t] = "get_processor"
    /\ Goto(t, IF processor = 0 THEN "create" ELSE "return")
    /\ UNCHANGED <<processor, inst_model, torch_loads, temp_audio,
                   result_avi, th_proc, th_wav, th_mel, th_infer, th_out,
                   th_error>>

\* processor = Wav2LipVideoProcessor(checkpoint_path) (app.py 63); the
\* new instance has self.model = None
GetProcessorCreate(t) ==
    /\ th_pc[t] = "create"
    /\ processor' = t
    /\ Goto(t, "return")
    /\ UNCHANGED <<inst_model, torch_loads, temp_audio, result_avi, th_proc,
                   th_wav, th_mel, th_infer, th_out, th_error>>

\* return processor (app.py 64), proc = get_processor() (app.py 157)
GetProcessorReturn(t) ==
    /\ th_pc[t] = "return"
    /\ th_proc' = [th_proc EXCEPT ![t] = processor]
    /\ Goto(t, "audio")
    /\ UNCHANGED <<processor, inst_model, torch_loads, temp_audio,
                   result_avi, th_wav, th_mel, th_infer, th_out, th_error>>

\* the audio of a source that is not a wav file is extracted to
\* TEMP_DIR/temp_audio.wav, overwriting it (281-288)
ThExtractAudio(t) ==
    /\ th_pc[t] = "audio"
    /\ temp_audio' = IF th_wav[t] THEN temp_audio ELSE t
    /\ Goto(t, "read_audio")
    /\ UNCHANGED <<processor, inst_model, torch_loads, result_avi, th_proc,
                   th_wav, th_mel, th_infer, th_out, th_error>>

\* the audio file of request t is there
AudioThere(t) == th_wav[t] \/ temp_audio # 0

\* the request whose audio is in the audio file of request t
AudioOf(t) == IF th_wav[t] THEN t ELSE temp_audio

\* validate_audio_file, load_wav and melspectrogram on audio_path
\* (290-297)
ThReadAudio(t) ==
    /\ th_pc[t] = "read_audio"
    /\ IF AudioThere(t)
       THEN /\ th_mel' = [th_mel EXCEPT ![t] = AudioOf(t)]
            /\ Goto(t, "load_model")
            /\ UNCHANGED th_error
       ELSE /\ ThRaise(t, "InvalidAudioFile")
            /\ UNCHANGED th_mel
    /\ UNCHANGED <<processor, inst_model, torch_loads, temp_audio,
                   result_avi, th_proc, th_wav, th_infer, th_out>>

\* if self.model is not None: return (56-57)
LoadModelTest(t) ==
    /\ th_pc[t] = "load_model"
    /\ Goto(t, IF inst_model[th_proc[t]] # "None" THEN "writer"
                ELSE "torch_load")
    /\ UNCHANGED <<processor, inst_model, torch_loads, temp_audio,
                   result_avi, th_proc, th_wav, th_mel, th_infer, th_out,
                   th_error>>

\* torch.load and self.model = Wav2Lip() (61-70)
TorchLoad(t) ==
    /\ th_pc[t] = "torch_load"
    /\ torch_loads' = torch_loads + 1
    /\ inst_model' = [inst_model EXCEPT ![th_proc[t]] = "fresh"]
    /\ Goto(t, "state_dict")
    /\ UNCHANGED <<processor, temp_audio, result_avi, th_proc, th_wav,
                   th_mel, th_infer, th_out, th_error>>

\* self.model.load_state_dict(new_s) and the rest of load_model (71-79)
LoadStateDict(t) ==
    /\ th_pc[t] = "state_dict"
    /\ inst_model' = [inst_model EXCEPT ![th_proc[t]] = "loaded"]
    /\ Goto(t, "writer")
    /\ UNCHANGED <<processor, torch_loads, temp_audio, result_avi, th_proc,
                   th_wav, th_mel, th_infer, th_out, th_error>>

\* create_video_writer on TEMP_DIR/result.avi (339-346) creates the file
\* anew
ThOpenWriter(t) ==
    /\ th_pc[t] = "writer"
    /\ result_avi' = t
    /\ Goto(t, "generate")
    /\ UNCHANGED <<processor, inst_model, torch_loads, temp_audio, th_proc,
                   th_wav, th_mel, th_infer, th_out, th_error>>

\* the inference loop (359-398) calls self.model
ThGenerate(t) ==
    /\ th_pc[t] = "generate"
    /\ th_infer' = [th_infer EXCEPT ![t] = inst_model[th_proc[t]]]
    /\ Goto(t, "mux")
    /\ UNCHANGED <<processor, inst_model, torch_loads, temp_audio,
                   result_avi, th_proc, th_wav, th_mel, th_out, th_error>>

\* merge_audio_video(temp_video_path, audio_path, output_path) (402-410):
\* the command fails when one of its input files is missing
ThMux(t) ==
    /\ th_pc[t] = "mux"
    /\ IF result_avi # 0 /\ AudioThere(t)
       THEN /\ th_out' = [th_out EXCEPT ![t] = <<result_avi, AudioOf(t)>>]
            /\ Goto(t, "cleanup")
            /\ UNCHANGED th_error
       ELSE /\ ThRaise(t, "MuxFailed")
            /\ UNCHANGED th_out
    /\ UNCHANGED <<processor, inst_model, torch_loads, temp_audio,
                   result_avi, th_proc, th_wav, th_mel, th_infer>>

\* cleanup_temp_files(config.TEMP_DIR, keep_patterns=['faulty_frame'])
\* (415) removes both files, whoever wrote them
ThCleanup(t) ==
    /\ th_pc[t] = "cleanup"
    /\ temp_audio' = 0
    /\ result_avi' = 0
    /\ Goto(t, "done")
    /\ UNCHANGED <<processor, inst_model, torch_loads, th_proc, th_wav,
                   th_mel, th_infer, th_out, th_error>>

ServeNext ==
    \/ \E t \in Requests : GetProcessorTest(t)
           /\ UNCHANGED <<chunkVars, runVars, smoothVars, blendVars,
                        compVars, toolVars>>
    \/ \E t \in Requests : GetProcessorCreate(t)
           /\ UNCHANGED <<chunkVars, runVars, smoothVars, blendVars,
                        compVars, toolVars>>
    \/ \E t \in Requests : GetProcessorReturn(t)
           /\ UNCHANGED <<chunkVars, runVars, smoothVars, blendVars,
                        compVars, toolVars>>
    \/ \E t \in Requests : ThExtractAudio(t)
           /\ UNCHANGED <<chunkVars, runVars, smoothVars, blendVars,
                        compVars, toolVars>>
    \/ \E t \in Requests : ThReadAudio(t)
           /\ UNCHANGED <<chunkVars, runVars, smoothVars, blendVars,
                        compVars, toolVars>>
    \/ \E t \in Requests : LoadModelTest(t)
           /\ UNCHANGED <<chunkVars, runVars, smoothVars, blendVars,
                        compVars, toolVars>>
    \/ \E t \in Requests : TorchLoad(t)
           /\ UNCHANGED <<chunkVars, runVars, smoothVars, blendVars,
                        compVars, toolVars>>
    \/ \E t \in Requests : LoadStateDict(t)
           /\ UNCHANGED <<chunkVars, runVars, smoothVars, blendVars,
                        compVars, toolVars>>
    \/ \E t \in Requests : ThOpenWriter(t)
           /\ UNCHANGED <<chunkVars, runVars, smoothVars, blendVars,
                        compVars, toolVars>>
    \/ \E t \in Requests : ThGenerate(t)
           /\ UNCHANGED <<chunkVars, runVars, smoothVars, blendVars,
                        compVars, toolVars>>
    \/ \E t \in Requests : ThMux(t)
           /\ UNCHANGED <<chunkVars, runVars, smoothVars, blendVars,
                        compVars, toolVars>>
    \/ \E t \in Requests : ThCleanup(t)
           /\ UNCHANGED <<chunkVars, runVars, smoothVars, blendVars,
                        compVars, toolVars>>

SpecServe == ServeInit /\ [][ServeNext]_vars

(***************************************************************************)
(* Claims about concurrent requests                                        *)
(***************************************************************************)
\* C19 as stated: no request fails on, reads or muxes an intermediate file
\* of another request; its mel comes from its own audio and its output
\* from its own frames and audio
C19_RunsIsolated ==
    \A t \in Requests :
        /\ th_error[t] = ""
        /\ th_mel[t] \in {0, t}
        /\ th_out[t] \in {<<0, 0>>, <<t, t>>}

\* C20 as stated: the requests get one processor, its checkpoint is read
\* once, and every request runs inference on the loaded model
C20_SingleInit ==
    /\ torch_loads <= 1
    /\ \A t, u \in Requests :
           (th_proc[t] # 0 /\ th_proc[u] # 0) => th_proc[t] = th_proc[u]
    /\ \A t \in Requests : th_infer[t] \in {"", "loaded"}

(***************************************************************************)
(* Claims about process_video                                              *)
(***************************************************************************)
\* the run has made a call of one of the kinds
Called(kinds) == \E k \in 1..Len(events) : events[k].ev \in kinds

\* C1: a run that succeeds has written as many frames as there are mel
\* chunks, whatever the number of decoded frames
C1_FramesEqualWindows ==
    pc \in {"cleanup", "done"} => Len(written) = Len(mel_chunks)

\* a successful run whose video is shorter than the audio
C1_Witness ==
    /\ pc = "done"
    /\ n_frames < Len(mel_chunks)
    /\ Len(written) = Len(mel_chunks)
    /\ written[Len(written)].frame < Len(written) - 1

\* the detection pass is over and found no face in some sampled frame
NoFaceFound ==
    /\ pc # "detect"
    /\ frames_to_detect # <<>>
    /\ Len(predictions) = Len(frames_to_detect)
    /\ \E k \in 1..Len(predictions) : predictions[k] = None

\* C4: when a sampled frame has no face the run raises the
\* face-not-detected error, and it has neither loaded the model, nor
\* called the generator, nor written or muxed a video
C4_NoFaceFailsFast ==
    /\ NoFaceFound =>
          /\ pc = "raised"
          /\ error = "FaceNotDetected"
          /\ output = "none"
          /\ written = <<>>
    /\ (\E k \in 1..Len(predictions) : predictions[k] = None) =>
          ~Called({"load_model", "writer", "generator", "write", "mux"})

C4_Witness ==
    /\ NoFaceFound
    /\ error = "FaceNotDetected"
    /\ detect_every_n > 1
    /\ Len(predictions) > 1
    /\ predictions[1] # None

\* C7: in static mode the detector sees frame 0 only, and every frame is
\* written with the padded box detected on frame 0
C7_StaticOneBox ==
    (static /\ box = NoBox /\ pc \notin {"start", "audio", "mel", "chunk",
                                          "detect_faces"}) =>
        /\ \A k \in 1..Len(events) :
              events[k].ev = "detector" => events[k].arg = <<0>>
        /\ \A k \in 1..Len(written) :
              written[k].coords = Coords(PadBox(predictions[1], RunPads))

C7_Witness ==
    /\ pc = "done"
    /\ static
    /\ ~nosmooth
    /\ box = NoBox
    /\ n_frames >= 2
    /\ Len(written) >= 3
    /\ written[2].frame = 1

\* C9 as stated: when a run has ended, by return or by exception, only
\* the faulty-frame snapshot is left in the temp directory
C9_TempDirClean ==
    pc \in {"done", "raised"} => temp_dir \subseteq {"faulty_frame.jpg"}

\* the mel matrix holds a NaN or an infinity
HasNonFinite(kind) == kind # "finite"

\* C10 as stated: a mel matrix with a non-finite value ends the run with
\* the invalid-audio error at the check, before any chunking, detector or
\* generator call
C10_NonFiniteRejected ==
    (HasNonFinite(mel_kind) /\ Called({"nan_check"})) =>
        /\ pc = "raised"
        /\ error = "MelNaN"
        /\ mel_chunks = <<>>
        /\ ~Called({"detector", "generator"})

\* the mux command of this run exited with a non-zero code
MuxExitedNonZero ==
    \E k \in 1..Len(events) : events[k].ev = "mux" /\ events[k].arg # 0

\* C11: a run whose mux command exits with a non-zero code ends with the
\* mux error; it never reaches the success path and leaves no output
C11_MuxFailureRaises ==
    MuxExitedNonZero =>
        /\ pc = "raised"
        /\ error = "MuxFailed"
        /\ output = "none"

\* every frame was written and the mux command then failed
C11_Witness ==
    /\ MuxExitedNonZero
    /\ pc = "raised"
    /\ Len(written) = Len(mel_chunks)
    /\ "result.avi" \in temp_dir

\* C15 as stated: output index i is written from frame 0 in static mode
\* and from frame i mod frame_count otherwise, paired with window i
C15_FrameSelection ==
    \A k \in 1..Len(written) :
        /\ written[k].out = k - 1
        /\ written[k].mel = k - 1
        /\ written[k].frame = IF static THEN 0 ELSE (k - 1) % n_frames

RECURSIVE SumLen(_)
\* total number of items of a sequence of batches
SumLen(bs) == IF bs = <<>> THEN 0 ELSE Len(Head(bs)) + SumLen(Tail(bs))

IsGenerator(e) == e.ev = "generator"
\* the batches passed to the generator so far, in order
GeneratorCalls == [k \in 1..Len(SelectSeq(events, IsGenerator)) |->
                      SelectSeq(events, IsGenerator)[k].arg]

\* C16: n windows in batches of b give ceil(n/b) batches of 1..b items,
\* all but the last of exactly b, n items in all, in output order, and
\* the generator is called once per batch, in order
C16_Batching ==
    wav2lip_batch_size > 0 =>
        LET n == Len(mel_chunks)
            b == wav2lip_batch_size
            B == RunBatches
        IN  /\ Len(B) = CeilDiv(n, b)
            /\ \A j \in 1..Len(B) : Len(B[j]) >= 1 /\ Len(B[j]) <= b
            /\ \A j \in 1..(Len(B) - 1) : Len(B[j]) = b
            /\ SumLen(B) = n
            /\ \A j \in 1..Len(B) : \A m \in 1..Len(B[j]) :
                   /\ B[j][m].out = (j - 1) * b + (m - 1)
                   /\ B[j][m].mel = B[j][m].out
            /\ \A k \in 1..Len(GeneratorCalls) : GeneratorCalls[k] = k - 1
            /\ Len(GeneratorCalls) <= Len(B)
            /\ pc \in {"cleanup", "done"} => Len(GeneratorCalls) = Len(B)

\* a finished run of several batches whose last batch is short
C16_Witness ==
    /\ pc = "done"
    /\ Len(mel_chunks) % wav2lip_batch_size # 0
    /\ Len(GeneratorCalls) = CeilDiv(Len(mel_chunks), wav2lip_batch_size)
    /\ Len(GeneratorCalls) >= 2

\* C18 as stated: over any sequence of runs the checkpoint is read at most
\* once, and a run that reaches inference does so with the model that
\* holds the checkpoint weights, loaded by it or by an earlier run
C18_LoadedOnce ==
    /\ model_loads <= 1
    /\ Called({"generator"}) => model = "loaded"

\* an error condition of the run has occurred: the face video was
\* rejected, the audio could not be extracted or read, the mel matrix
\* holds a non-finite value, a sampled frame has no face, the detector
\* failed at batch size 1, or the mux command failed
ErrorCondition ==
    \/ error \in {"InvalidVideo", "ExtractFailed", "InvalidAudioFile",
                   "MelNaN", "FaceNotDetected", "DetectorOOM", "MuxFailed"}
    \/ HasNonFinite(mel_kind) /\ Called({"nan_check"})
    \/ NoFaceFound
    \/ MuxExitedNonZero

\* C21 as stated: a run in which an error condition has occurred has
\* raised, has not run the mux (unless the mux is what failed) and does
\* not report success
C21_ErrorsFatal ==
    ErrorCondition =>
        /\ pc = "raised"
        /\ output = "none"
        /\ MuxExitedNonZero \/ ~Called({"mux"})

\* C22 as stated: a run that succeeds returns the output path
C22_ReturnsOutputPath ==
    pc = "done" => returned = "output_path"

\* the positions of the events of a kind
EventsOf(kind) == {k \in 1..Len(events) : events[k].ev = kind}

\* the generator call that the event at position a follows most closely
LastGeneratorBefore(a) ==
    CHOOSE g \in EventsOf("generator") :
        g < a /\ \A h \in EventsOf("generator") : h < a => h <= g

\* C24: in a run all detector calls precede the generator calls; the
\* k-th frame written is output index k - 1, and it is written after
\* its own batch was passed to the generator and before the next one is;
\* the mux runs at most once, as the last call, after all frames
C24_StagesSequential ==
    /\ \A d \in EventsOf("detector") : \A g \in EventsOf("generator") : d < g
    /\ \A w \in EventsOf("write") :
           /\ events[w].arg = Cardinality({v \in EventsOf("write") : v < w})
           /\ \E g \in EventsOf("generator") : g < w
           /\ events[LastGeneratorBefore(w)].arg
                  = events[w].arg \div wav2lip_batch_size
    /\ Cardinality(EventsOf("write")) = Len(written)
    /\ Cardinality(EventsOf("mux")) <= 1
    /\ \A m \in EventsOf("mux") :
           /\ m = Len(events)
           /\ Cardinality(EventsOf("write")) = Len(mel_chunks)

\* a finished run of two batches of two frames each
C24_Witness ==
    /\ pc = "done"
    /\ wav2lip_batch_size = 2
    /\ Cardinality(EventsOf("write")) = 4
    /\ Cardinality(EventsOf("generator")) = 2
    /\ Cardinality(EventsOf("detector")) >= 2

(***************************************************************************)
(* Claims about detect_faces                                               *)
(***************************************************************************)
IsAttempt(e) == e.ev = "attempt"
\* the batch sizes of the attempts made so far, in order
Attempts == [k \in 1..Len(SelectSeq(events, IsAttempt)) |->
                SelectSeq(events, IsAttempt)[k].arg]

RECURSIVE Halvings(_)
\* b, floor(b/2), floor(b/4), ..., 1
Halvings(b) == IF b <= 1 THEN <<b>> ELSE <<b>> \o Halvings(b \div 2)

IsPrefix(s, t) ==
    /\ Len(s) <= Len(t)
    /\ \A k \in 1..Len(s) : s[k] = t[k]

\* a box <<y1, y2, x1, x2>> lies inside the frame and is not empty
InFrame(c) ==
    /\ 0 <= c[3] /\ c[3] < c[4] /\ c[4] <= FrameW
    /\ 0 <= c[1] /\ c[1] < c[2] /\ c[2] <= FrameH

\* C12 as stated: every box detect_faces returns, in every mode, lies
\* inside the frame and is not empty
C12_BoxesInFrame ==
    \A k \in 1..Len(face_det_results) : InFrame(face_det_results[k])

\* C13: with a manual box the detector is never called, neither detection
\* error is raised, and every frame gets exactly the supplied box
C13_ManualBoxBypass ==
    box[1] # -1 =>
        /\ pc # "detect"
        /\ ~Called({"attempt", "detector"})
        /\ error \notin {"FaceNotDetected", "DetectorOOM"}
        /\ frames_to_detect = <<>>
        /\ predictions = <<>>
        /\ face_det_results = [k \in 1..n_frames |-> box]

\* a run with a manual box on several frames that ends well
C13_Witness ==
    /\ box[1] # -1
    /\ pc = "done"
    /\ ~nosmooth
    /\ n_frames >= 2
    /\ Len(written) = Len(mel_chunks)

\* the frames the detector has been called on
DetectorFrames ==
    UNION {{events[k].arg[j] : j \in 1..Len(events[k].arg)} :
              k \in {e \in 1..Len(events) : events[e].ev = "detector"}}

\* the frames 0, N, 2N, ... below n
SampledFrames(n, N) == {f \in 0..(n - 1) : f % N = 0}

\* the padded box detected on the nearest sampled frame at or before frame
\* f, sampled frame j * N being prediction j + 1
NearestPreceding(f, N) == PadBox(predictions[(f \div N) + 1], RunPads)

PaddedDetection(f) ==
    PadBox(predictions[IF static THEN 1
                       ELSE IF detect_every_n > 1
                            THEN (f \div detect_every_n) + 1
                            ELSE f + 1],
           RunPads)

\* C25: the boxes returned are the smoothed padded detections when the
\* strategy is per-frame or interval, no manual box is supplied and
\* nosmooth is false, and the padded detections themselves otherwise
C25_SmoothingCondition ==
    (box = NoBox /\ face_det_results # <<>>) =>
        LET padded == [k \in 1..n_frames |-> PaddedDetection(k - 1)]
            expected == IF ~static /\ ~nosmooth
                        THEN get_smoothened_boxes(padded, SmoothT)
                        ELSE padded
        IN  face_det_results = [k \in 1..n_frames |-> Coords(expected[k])]

\* per-frame detections that smoothing changes, returned smoothed
C25_Witness ==
    /\ box = NoBox
    /\ ~static
    /\ ~nosmooth
    /\ detect_every_n = 1
    /\ Len(face_det_results) >= 2
    /\ face_det_results[1] # Coords(PaddedDetection(0))

RECURSIVE ConcatArgs(_, _)
\* the arguments of the events of a kind from position a on, concatenated
ConcatArgs(kind, a) ==
    IF a > Len(events) THEN <<>>
    ELSE (IF events[a].ev = kind THEN events[a].arg ELSE <<>>)
             \o ConcatArgs(kind, a + 1)

\* the position of the start of the last attempt
LastAttempt ==
    CHOOSE a \in EventsOf("attempt") : \A b \in EventsOf("attempt") : b <= a

\* the detection pass has ended with a result for every sampled frame
PassComplete ==
    /\ pc # "detect"
    /\ frames_to_detect # <<>>
    /\ Len(predictions) = Len(frames_to_detect)

\* C26: when the pass is complete the detections are those returned by
\* the calls of the last attempt, one per sampled frame, in frame order
C26_DetectionsOfLastAttempt ==
    PassComplete =>
        /\ Len(predictions) = Len(frames_to_detect)
        /\ ConcatArgs("detector", LastAttempt) = frames_to_detect
        /\ ConcatArgs("detections", LastAttempt) = predictions

\* a complete pass whose first attempt returned detections before it
\* failed
C26_Witness ==
    /\ PassComplete
    /\ \E d \in EventsOf("detections") : d < LastAttempt

\* the attempts follow the halving sequence of the configured batch size,
\* and the fatal error is raised only once the whole sequence down to 1
\* has been tried
RetrySequence ==
    /\ pc = "detect" => IsPrefix(Attempts, Halvings(face_det_batch_size))
    /\ (pc = "raised" /\ error = "DetectorOOM") =>
          /\ Attempts = Halvings(face_det_batch_size)
          /\ batch_size = 1
          /\ face_det_batch_size = 16 => Attempts = <<16, 8, 4, 2, 1>>

\* C5: under OOM the detector is tried with batch sizes b, b/2, ..., 1,
\* each once and in that order, before the fatal error; 16, 8, 4, 2, 1 for
\* b = 16; the retry loop terminates
C5_RetryHalving ==
    /\ []RetrySequence
    /\ <>(pc \in {"load_model", "raised"})

C5_Witness ==
    /\ pc = "raised"
    /\ error = "DetectorOOM"
    /\ face_det_batch_size = 16
    /\ Attempts = <<16, 8, 4, 2, 1>>

(***************************************************************************)
(* Compositing (process_video 382-395): the mask and the blend are         *)
(* float32 arrays; a float32 value is m * 2^e with 2^23 <= m < 2^24, or 0  *)
(***************************************************************************)
RECURSIVE Pow2(_)
Pow2(n) == IF n = 0 THEN 1 ELSE 2 * Pow2(n - 1)

RECURSIVE BitLen(_)
BitLen(n) == IF n = 0 THEN 0 ELSE 1 + BitLen(n \div 2)

\* round N * 2^e (plus a fraction below N's last bit when sticky) to the
\* nearest float32, ties to even
F32Round(N, e, sticky) ==
    IF N = 0 THEN F32Zero
    ELSE LET L == BitLen(N) IN
         IF L <= 24 THEN F32(N * Pow2(24 - L), e - (24 - L))
         ELSE LET s == L - 24
                  q == N \div Pow2(s)
                  r == N % Pow2(s)
                  half == Pow2(s - 1)
                  up == r > half \/ (r = half /\ (sticky \/ q % 2 = 1))
                  q2 == IF up THEN q + 1 ELSE q
              IN IF q2 = Pow2(24) THEN F32(Pow2(23), e + s + 1)
                 ELSE F32(q2, e + s)

\* uint8 -> float32 (astype(np.float32), 394-395)
F32FromInt(x) == F32Round(x, 0, FALSE)

\* float32 * float32 (395); the 48-bit product is built from 12-bit limbs
F32Mul(a, b) ==
    IF a.m = 0 \/ b.m = 0 THEN F32Zero
    ELSE LET a1 == a.m \div Pow2(12)
             a0 == a.m % Pow2(12)
             b1 == b.m \div Pow2(12)
             b0 == b.m % Pow2(12)
             lo == a0 * b0
             mid == a1 * b0 + a0 * b1
             hi == a1 * b1
             t1 == mid + lo \div Pow2(12)
             c0 == lo % Pow2(12)
             c1 == t1 % Pow2(12)
             t2 == hi + t1 \div Pow2(12)
             low24 == c1 * Pow2(12) + c0
         IN F32Round(t2 * Pow2(7) + low24 \div Pow2(17), a.e + b.e + 17,
                     low24 % Pow2(17) # 0)

\* float32 + float32 of non-negative values (395)
F32Add(x, y) ==
    IF x.m = 0 THEN y
    ELSE IF y.m = 0 THEN x
    ELSE LET a == IF x.e < y.e THEN y ELSE x
             b == IF x.e < y.e THEN x ELSE y
             d == a.e - b.e
             k == d - 6
         IN IF d <= 6 THEN F32Round(a.m * Pow2(d) + b.m, b.e, FALSE)
            ELSE IF k > 30 THEN F32Round(a.m * Pow2(6), a.e - 6, TRUE)
            ELSE F32Round(a.m * Pow2(6) + b.m \div Pow2(k), a.e - 6,
                          b.m % Pow2(k) # 0)

\* float32 - float32 for a >= b >= 0 (1 - mask, 395)
F32Sub(a, b) ==
    IF b.m = 0 THEN a
    ELSE LET d == a.e - b.e
             k == d - 6
             fr == b.m % Pow2(k) # 0
         IN IF d <= 6 THEN F32Round(a.m * Pow2(d) - b.m, b.e, FALSE)
            ELSE IF k > 30 THEN F32Round(a.m * Pow2(6) - 1, a.e - 6, TRUE)
            ELSE F32Round(a.m * Pow2(6) - b.m \div Pow2(k)
                              - (IF fr THEN 1 ELSE 0),
                          a.e - 6, fr)

\* long division of num / d continued until the quotient has 26 bits
RECURSIVE Extend(_, _, _, _)
Extend(q, r, d, e) ==
    IF BitLen(q) >= 26 THEN [q |-> q, r |-> r, e |-> e]
    ELSE Extend(2 * q + (2 * r) \div d, (2 * r) % d, d, e - 1)

\* mask *= ramp value k/d (388-391): the float32 weight times the
\* linspace value, stored back as float32
F32MulRat(w, k, d) ==
    IF w.m = 0 \/ k = 0 THEN F32Zero
    ELSE LET x == Extend((w.m * k) \div d, (w.m * k) % d, d, w.e)
         IN F32Round(x.q, x.e, x.r # 0)

\* float32 -> uint8 (astype(np.uint8), 395) truncates toward zero
F32ToUint8(v) ==
    IF v.e >= 0 THEN (v.m * Pow2(v.e)) % (MaxPixel + 1)
    ELSE IF -v.e > 30 THEN 0
    ELSE (v.m \div Pow2(-v.e)) % (MaxPixel + 1)

\* np.linspace(0, 1, f)[j] and np.linspace(1, 0, f)[j] as fractions
RampUp(j, f) == IF f = 1 THEN <<0, 1>> ELSE <<j, f - 1>>
RampDown(j, f) == IF f = 1 THEN <<1, 1>> ELSE <<f - 1 - j, f - 1>>

\* mask[r, c] after the four in-place multiplications (382-391)
MaskWeight(h, w, r, c) ==
    LET f == feather_amount(<<0, h, 0, w>>)
        m1 == IF r < f
              THEN F32MulRat(F32One, RampUp(r, f)[1], RampUp(r, f)[2])
              ELSE F32One
        m2 == IF r >= h - f
              THEN F32MulRat(m1, RampDown(r - (h - f), f)[1],
                             RampDown(r - (h - f), f)[2])
              ELSE m1
        m3 == IF c < f
              THEN F32MulRat(m2, RampUp(c, f)[1], RampUp(c, f)[2])
              ELSE m2
        m4 == IF c >= w - f
              THEN F32MulRat(m3, RampDown(c - (w - f), f)[1],
                             RampDown(c - (w - f), f)[2])
              ELSE m3
    IN IF f > 0 THEN m4 ELSE F32One

\* p.astype(float32) * mask + original_face * (1 - mask), as uint8 (395)
Blend(p, o, m) ==
    F32ToUint8(F32Add(F32Mul(F32FromInt(p), m),
                      F32Mul(F32FromInt(o), F32Sub(F32One, m))))

\* one pixel (row, col) of a face box of box_h x box_w
BlendInit ==
    /\ ProcessorInit
    /\ NoRun
    /\ SmoothIdle
    /\ ServeIdle
    /\ CompIdle
    /\ ToolsIdle
    /\ mel_len = 0
    /\ fps = 25
    /\ i = 0
    /\ mel_chunks = <<>>
    /\ chunk_pc = "idle"
    /\ box_h \in BlendHeights
    /\ box_w \in BlendWidths
    /\ row \in 0..(box_h - 1)
    /\ col \in 0..(box_w - 1)
    /\ mask = F32One
    /\ orig = 0
    /\ crop = 0
    /\ blended = 0
    /\ blend_pc = "mask"

\* 382-391
BuildMask ==
    /\ blend_pc = "mask"
    /\ IF MaskFails(<<0, box_h, 0, box_w>>)
       THEN /\ blend_pc' = "error"
            /\ UNCHANGED mask
       ELSE /\ blend_pc' = "blend"
            /\ mask' = MaskWeight(box_h, box_w, row, col)
    /\ UNCHANGED <<box_h, box_w, row, col, orig, crop, blended>>

\* 394-397 for the pixel; the generator returns either the original pixel
\* or its complement
BlendPixel ==
    /\ blend_pc = "blend"
    /\ \E o \in 0..MaxPixel :
        \E p \in {o, MaxPixel - o} :
            /\ orig' = o
            /\ crop' = p
            /\ blended' = Blend(p, o, mask)
    /\ blend_pc' = "done"
    /\ UNCHANGED <<box_h, box_w, row, col, mask>>

BlendNext ==
    \/ BuildMask /\ UNCHANGED <<chunkVars, runVars, smoothVars, serveVars,
                                compVars, toolVars>>
    \/ BlendPixel /\ UNCHANGED <<chunkVars, runVars, smoothVars, serveVars,
                                compVars, toolVars>>

SpecBlend == BlendInit /\ [][BlendNext]_vars

(***************************************************************************)
(* Compositing of whole frames: for every output index prepare_datagen     *)
(* copies the source frame (202-204) and the loop of process_video blends  *)
(* the synthesized crop into the copy and writes it (376-398). A pixel is  *)
(* a record of where it comes from and of the output indices whose blend   *)
(* went over it.                                                           *)
(***************************************************************************)
\* the pixel positions <<row, column>> of a frame
Pixels == (0..(FrameH - 1)) \X (0..(FrameW - 1))

\* frame number idx as loaded from the video
LoadedFrame(idx) ==
    [px \in Pixels |-> [frame |-> idx, at |-> px, blends |-> <<>>]]

\* the positions the slice f[y1:y2, x1:x2] selects
Region(c) ==
    {px \in Pixels :
        /\ px[1] >= PySlice(c[1], c[2], FrameH)[1]
        /\ px[1] < PySlice(c[1], c[2], FrameH)[2]
        /\ px[2] >= PySlice(c[3], c[4], FrameW)[1]
        /\ px[2] < PySlice(c[3], c[4], FrameW)[2]}

\* f[y1:y2, x1:x2] = blended (394-397): the blend of output index k over
\* the pixels of f inside the slice
WriteBack_rows(f, c, k) ==
    [px \in Pixels |->
        IF px[1] >= PySlice(c[1], c[2], FrameH)[1]
               /\ px[1] < PySlice(c[1], c[2], FrameH)[2]
        THEN [f[px] EXCEPT !.blends = Append(@, k)]
        ELSE f[px]]
WriteBack(f, c, k) ==
    [px \in Pixels |->
        IF px \in Region(c)
        THEN [f[px] EXCEPT !.blends = Append(@, k)]
        ELSE f[px]]

\* frames after output index k was composited onto f, a copy of
\* frames[idx] (frame_to_save = frames[idx].copy(), 204): the list of
\* loaded frames is as before
FramesAfter_alias(frames, idx, f) == [frames EXCEPT ![idx + 1] = f]
FramesAfter(frames, idx, f) == frames

\* face boxes <<y1, y2, x1, x2>> of the frames composited: padded
\* detections, manual boxes, and a manual box given by negative indices
CompositeBoxes ==
    {Coords(PadBox(r, RunPads)) : r \in Rects} \cup ManualBoxes
        \cup {<<-3, -1, 1, 3>>}

CompositeInit ==
    /\ SmoothIdle
    /\ BlendIdle
    /\ ServeIdle
    /\ ProcessorInit
    /\ ChunkIdle
    /\ NoRun
    /\ ToolsIdle
    /\ \E nf \in 1..MaxFrames :
          /\ src_frames = [k \in 1..nf |-> LoadedFrame(k - 1)]
          /\ comp_coords \in [1..nf -> CompositeBoxes]
          /\ comp_n \in nf..(nf + 2)
    /\ comp_k = 0
    /\ out_frames = <<>>
    /\ comp_pc = "loop"

\* output index comp_k: the frame is copied and its crop resized (203-207),
\* the crop is blended into the copy and the copy is written (376-398)
CompositeFrame ==
    /\ comp_pc = "loop"
    /\ comp_k < comp_n
    /\ LET idx == comp_k % Len(src_frames)
           c == comp_coords[idx + 1]
           f == WriteBack(src_frames[idx + 1], c, comp_k)
       IN  IF ResizeFails(c) \/ CompositeFails(c)
           THEN /\ comp_pc' = "error"
                /\ UNCHANGED <<src_frames, comp_k, out_frames>>
           ELSE /\ src_frames' = FramesAfter(src_frames, idx, f)
                /\ out_frames' = Append(out_frames, f)
                /\ comp_k' = comp_k + 1
                /\ UNCHANGED comp_pc
    /\ UNCHANGED <<comp_coords, comp_n>>

\* the generator is exhausted and the writer released (400)
CompositeEnd ==
    /\ comp_pc = "loop"
    /\ comp_k = comp_n
    /\ comp_pc' = "done"
    /\ UNCHANGED <<src_frames, comp_coords, comp_n, comp_k, out_frames>>

CompositeNext ==
    \/ CompositeFrame
           /\ UNCHANGED <<chunkVars, runVars, smoothVars, blendVars,
                          serveVars, toolVars>>
    \/ CompositeEnd
           /\ UNCHANGED <<chunkVars, runVars, smoothVars, blendVars,
                          serveVars, toolVars>>

SpecComposite == CompositeInit /\ [][CompositeNext]_vars

(***************************************************************************)
(* Claims about the compositing of whole frames                            *)
(***************************************************************************)
\* C23: a written frame has the height and width of the source frames,
\* and outside the face box of its source frame every pixel is the
\* source pixel
C23_OnlyBoxChanges ==
    \A k \in 1..Len(out_frames) :
        LET idx == (k - 1) % Len(src_frames)
        IN  /\ DOMAIN out_frames[k] = Pixels
            /\ \A px \in Pixels \ Region(comp_coords[idx + 1]) :
                   out_frames[k][px] = LoadedFrame(idx)[px]

\* a frame written with a box that leaves pixels outside and changes
\* pixels inside
C23_Witness ==
    /\ comp_pc = "done"
    /\ Len(out_frames) >= 2
    /\ \E px \in Pixels : out_frames[2][px].blends = <<>>
    /\ \E px \in Pixels : out_frames[2][px].blends # <<>>

\* C27: the loaded frames are never changed, and every written frame is
\* the blend of its own output index alone over the pixels as loaded
C27_SourceFramesPristine ==
    /\ \A j \in 1..Len(src_frames) : src_frames[j] = LoadedFrame(j - 1)
    /\ \A k \in 1..Len(out_frames) : \A px \in Pixels :
           /\ out_frames[k][px].frame = (k - 1) % Len(src_frames)
           /\ out_frames[k][px].at = px
           /\ out_frames[k][px].blends \in {<<>>, <<k - 1>>}

\* a source frame used for two output indices
C27_Witness ==
    /\ comp_pc = "done"
    /\ Len(out_frames) > Len(src_frames)
    /\ \E px \in Pixels :
           /\ out_frames[1][px].blends = <<0>>
           /\ out_frames[Len(src_frames) + 1][px].blends
                  = <<Len(src_frames)>>

(***************************************************************************)
(* Claims about compositing                                                *)
(***************************************************************************)
\* a float32 weight lies in [0, 1]
InUnitInterval(m) == m = F32Zero \/ m = F32One \/ (m.m > 0 /\ m.e <= -24)

\* the pixel lies on the outermost row or column of the box
OnOutermost ==
    row = 0 \/ row = box_h - 1 \/ col = 0 \/ col = box_w - 1

\* the pixel is at least f pixels away from all four edges
InInterior(f) ==
    /\ row >= f /\ row < box_h - f
    /\ col >= f /\ col < box_w - f

\* C17 as stated: the weight map can be built for every box, its weights
\* lie in [0, 1], are 1 in the interior and, with a feather margin, 0 on
\* the outermost row and column of each edge
C17_WeightMap ==
    /\ blend_pc # "error"
    /\ blend_pc \in {"blend", "done"} =>
          LET f == feather_amount(<<0, box_h, 0, box_w>>)
          IN  /\ InUnitInterval(mask)
              /\ InInterior(f) => mask = F32One
              /\ (f > 0 /\ OnOutermost) => mask = F32Zero

\* C8 as stated: when the synthesized pixel equals the original pixel,
\* the blended pixel written back equals the original pixel, whatever
\* the mask weight
C8_BlendIdentity ==
    (blend_pc = "done" /\ crop = orig) => blended = orig

(***************************************************************************)
(* Claims about get_smoothened_boxes                                       *)
(***************************************************************************)
\* C6 as stated: after smoothing, the box of frame k is the mean (as
\* stored in the integer box array) of the original boxes of frames
\* [k, k+5), or of [k, n) at the end of the sequence
C6_TrailingWindowMean ==
    smooth_pc = "done" =>
        \A k \in 0..(Len(boxes) - 1) :
            boxes[k + 1] =
                WindowMean(orig_boxes,
                           <<k, Min(k + SmoothT, Len(orig_boxes))>>)

\* C28: padded detections that are smoothed stay inside the frame and
\* non-empty, at every step of the smoothing and for every length
C28_SmoothedInFrame ==
    \A k \in 1..Len(boxes) : InFrame(Coords(boxes[k]))

\* a sequence longer than the window that holds a box of width 1 and was
\* changed by the smoothing
C28_Witness ==
    /\ smooth_pc = "done"
    /\ Len(boxes) > SmoothT
    /\ boxes # orig_boxes
    /\ \E k \in 1..Len(boxes) : orig_boxes[k][3] - orig_boxes[k][1] = 1
    /\ \E k \in 1..Len(boxes) : boxes[k][4] = FrameH

(***************************************************************************)
(* Claims about the chunking loop                                          *)
(***************************************************************************)
\* number of windows the loop emits: one per k >= 0 with
\* floor(80k/fps) + mel_step_size <= L, plus the clamped one
ExpectedWindows(L, f) ==
    IF L < mel_step_size THEN 1
    ELSE 1 + CeilDiv((L - mel_step_size + 1) * f, MelRate)

\* C2 as stated: the loop emits ceil(L / (80/fps)) windows, 25 of them for
\* L = 80 at 25 fps
C2_CeilWindowCount ==
    chunk_pc = "done" =>
        /\ Len(mel_chunks) = CeilDiv(mel_len * fps, MelRate)
        /\ (mel_len = 80 /\ fps = 25) => Len(mel_chunks) = 25

\* C2 amended: the loop emits 1 + ceil((L - 15) * fps / 80) windows when
\* L >= mel_step_size and one window otherwise; 22 of them for L = 80 at
\* 25 fps
C2_WindowCount ==
    chunk_pc = "done" =>
        /\ Len(mel_chunks) = ExpectedWindows(mel_len, fps)
        /\ (mel_len = 80 /\ fps = 25) => Len(mel_chunks) = 22

C2_Witness ==
    /\ chunk_pc = "done"
    /\ mel_len = 80
    /\ fps = 25
    /\ Len(mel_chunks) = 22

\* shape of the windows emitted so far: width mel_step_size inside [0, L),
\* regular window k starting at floor(80k/fps), and a single clamped
\* window (the final mel_step_size columns), emitted last
WindowsShape ==
    /\ \A k \in 1..Len(mel_chunks) :
          /\ mel_chunks[k].hi - mel_chunks[k].lo = mel_step_size
          /\ 0 <= mel_chunks[k].lo
          /\ mel_chunks[k].hi <= mel_len
          /\ ~mel_chunks[k].clamped =>
                mel_chunks[k].lo = (MelRate * (k - 1)) \div fps
          /\ mel_chunks[k].clamped =>
                /\ k = Len(mel_chunks)
                /\ mel_chunks[k].lo = mel_len - mel_step_size
                /\ mel_chunks[k].hi = mel_len
    /\ chunk_pc = "done" <=>
          (mel_chunks # <<>> /\ mel_chunks[Len(mel_chunks)].clamped)

\* C3 as stated: for every L the windows have the shape above
C3_AnyLength == WindowsShape

\* C3 amended: for every L >= mel_step_size the windows have the shape
\* above, and for every L the loop terminates
C3_Windows ==
    /\ [](mel_len >= mel_step_size => WindowsShape)
    /\ <>(chunk_pc = "done")

C3_Witness ==
    /\ chunk_pc = "done"
    /\ mel_len >= mel_step_size
    /\ Len(mel_chunks) >= 3
    /\ mel_chunks[Len(mel_chunks)].clamped
    /\ mel_chunks[Len(mel_chunks)].lo > mel_chunks[Len(mel_chunks) - 1].lo

(***************************************************************************)
(* BatchProcessor.process_batch_from_config (batch_process.py 29-123)      *)
(***************************************************************************)
\* the entry appended for the video at position idx of the config (93-112)
BatchResult(idx, ok) ==
    [index |-> idx, status |-> IF ok THEN "success" ELSE "failed"]

BatchInit ==
    /\ SmoothIdle
    /\ BlendIdle
    /\ ServeIdle
    /\ CompIdle
    /\ ProcessorInit
    /\ ChunkIdle
    /\ NoRun
    /\ AvatarIdle
    /\ BatchIdle

\* a call reads the config and enters the loop (50-68); self.results is
\* not assigned
BatchStart ==
    /\ batch_pc \in {"idle", "saved"}
    /\ batch_calls < MaxBatchCalls
    /\ \E k \in 0..MaxVideos : batch_k' = k
    /\ batch_i' = 0
    /\ batch_attempts' = <<>>
    /\ batch_calls' = batch_calls + 1
    /\ batch_pc' = "loop"
    /\ UNCHANGED <<self_results, batch_file>>

\* one iteration of the loop (68-114): process_video returns or raises,
\* and the entry of either outcome is appended to self.results
BatchProcessOne ==
    /\ batch_pc = "loop"
    /\ batch_i < batch_k
    /\ \E ok \in BOOLEAN :
          /\ batch_attempts' = Append(batch_attempts, <<batch_i + 1, ok>>)
          /\ self_results' = Append(self_results, BatchResult(batch_i + 1, ok))
    /\ batch_i' = batch_i + 1
    /\ UNCHANGED <<batch_k, batch_file, batch_calls, batch_pc>>

\* after the loop, json.dump(self.results) to batch_results.json (116-123)
BatchSave ==
    /\ batch_pc = "loop"
    /\ batch_i = batch_k
    /\ batch_file' = self_results
    /\ batch_pc' = "saved"
    /\ UNCHANGED <<self_results, batch_k, batch_i, batch_attempts, batch_calls>>

BatchNext ==
    \/ BatchStart /\ UNCHANGED <<chunkVars, runVars, smoothVars, blendVars,
                                 serveVars, compVars, avatarVars>>
    \/ BatchProcessOne /\ UNCHANGED <<chunkVars, runVars, smoothVars,
                                      blendVars, serveVars, compVars,
                                      avatarVars>>
    \/ BatchSave /\ UNCHANGED <<chunkVars, runVars, smoothVars, blendVars,
                                serveVars, compVars, avatarVars>>

SpecBatch == BatchInit /\ [][BatchNext]_vars

(***************************************************************************)
(* Claims about process_batch_from_config                                  *)
(***************************************************************************)
\* C29: when a call has written batch_results.json, process_video was
\* attempted for each of the k videos of the config in order, and the file
\* holds exactly k entries, the j-th with index j and with status
\* 'success' if and only if the j-th process_video returned without
\* raising; also for a second call on the same BatchProcessor
C29_BatchResults ==
    batch_pc = "saved" =>
        /\ Len(batch_attempts) = batch_k
        /\ Len(batch_file) = batch_k
        /\ \A j \in 1..batch_k :
               /\ batch_attempts[j][1] = j
               /\ batch_file[j].index = j
               /\ batch_file[j].status = "success" <=> batch_attempts[j][2]

(***************************************************************************)
(* AvatarAgent.generate_avatars with an AWS provider and a configured      *)
(* endpoint (src/agents/avatar.py 106-132)                                 *)
(***************************************************************************)
\* the upper-case letters and their lower-case forms (str.lower)
UpperChars ==
    <<"A", "B", "C", "D", "E", "F", "G", "H", "I", "J", "K", "L", "M",
      "N", "O", "P", "Q", "R", "S", "T", "U", "V", "W", "X", "Y", "Z">>
LowerChars ==
    <<"a", "b", "c", "d", "e", "f", "g", "h", "i", "j", "k", "l", "m",
      "n", "o", "p", "q", "r", "s", "t", "u", "v", "w", "x", "y", "z">>

\* str(e).lower(); a message is the sequence of its characters
Lower(msg) ==
    [k \in 1..Len(msg) |->
        IF \E u \in 1..Len(UpperChars) : UpperChars[u] = msg[k]
        THEN LowerChars[CHOOSE u \in 1..Len(UpperChars) :
                            UpperChars[u] = msg[k]]
        ELSE msg[k]]

\* pat in msg
Contains(msg, pat) ==
    \E s \in 0..(Len(msg) - Len(pat)) :
        \A k \in 1..Len(pat) : msg[s + k] = pat[k]

NotFound == <<"n", "o", "t", " ", "f", "o", "u", "n", "d">>
ValidationErrorLower ==
    <<"v", "a", "l", "i", "d", "a", "t", "i", "o", "n",
      "e", "r", "r", "o", "r">>

\* the messages SageMaker generation raises with in the model:
\* "Endpoint not found", "Not Found", "validationerror: x",
\* "(ValidationError)", "timed out"
SageMakerMessages ==
    { <<"E", "n", "d", "p", "o", "i", "n", "t", " ">> \o NotFound,
      <<"N", "o", "t", " ", "F", "o", "u", "n", "d">>,
      ValidationErrorLower \o <<":", " ", "x">>,
      <<"(", "V", "a", "l", "i", "d", "a", "t", "i", "o", "n",
        "E", "r", "r", "o", "r", ")">>,
      <<"t", "i", "m", "e", "d", " ", "o", "u", "t">> }

\* _generate_with_sagemaker returns, or raises with one of the messages
SageMakerOutcomes ==
    {[raised |-> FALSE, msg |-> <<>>]}
        \cup {[raised |-> TRUE, msg |-> m] : m \in SageMakerMessages}

\* the lists of audio files of a call, each file named by its slide_id
AudioLists ==
    {fs \in UNION {[1..n -> 1..MaxAudio] : n \in 0..MaxAudio} :
        \A a, b \in DOMAIN fs : a # b => fs[a] # fs[b]}

\* the test of line 126
Disables_not_found_only(msg) == Contains(Lower(msg), NotFound)
Disables(msg) ==
    \/ Contains(Lower(msg), NotFound)
    \/ Contains(Lower(msg), ValidationErrorLower)

\* the dictionary either generation returns (203-208, 279-284)
AvatarResult(slide) == [slide_id |-> slide]

\* an entry of the log of generations
Attempt(slide, by, out) ==
    [slide_id |-> slide, via |-> by, raised |-> out.raised, msg |-> out.msg]

AvatarInit ==
    /\ SmoothIdle
    /\ BlendIdle
    /\ ServeIdle
    /\ CompIdle
    /\ ProcessorInit
    /\ ChunkIdle
    /\ NoRun
    /\ BatchIdle
    /\ AvatarIdle

\* a call of generate_avatars on the agent (101-117): the face image is
\* missing and the call raises, or results = [] and the loop is entered
AvatarStart ==
    /\ av_pc \in {"idle", "returned", "raised"}
    /\ av_calls < MaxAvatarCalls
    /\ av_calls' = av_calls + 1
    /\ \E files \in AudioLists : audio_files' = files
    /\ av_i' = 0
    /\ av_results' = <<>>
    /\ av_log' = <<>>
    /\ \E face_exists \in BOOLEAN :
          av_pc' = IF face_exists THEN "loop" ELSE "raised"
    /\ UNCHANGED <<sagemaker_unavailable, av_failures>>

\* the local generation of one audio file (130-131): its result is
\* appended, or its exception ends the call
LocalGeneration(slide, log, local_ok) ==
    /\ av_log' = Append(log, Attempt(slide, "local",
                            [raised |-> ~local_ok, msg |-> <<>>]))
    /\ IF local_ok
       THEN /\ av_results' = Append(av_results, AvatarResult(slide))
            /\ av_i' = av_i + 1
            /\ UNCHANGED av_pc
       ELSE /\ av_pc' = "raised"
            /\ UNCHANGED <<av_results, av_i>>

\* one iteration of the loop over audio_files (118-132)
AvatarOne ==
    /\ av_pc = "loop"
    /\ av_i < Len(audio_files)
    /\ LET slide == audio_files[av_i + 1]
       IN  \E sm \in SageMakerOutcomes, local_ok \in BOOLEAN :
              IF sagemaker_unavailable
              THEN /\ LocalGeneration(slide, av_log, local_ok)
                   /\ UNCHANGED <<sagemaker_unavailable, av_failures>>
              ELSE IF ~sm.raised
              THEN /\ av_log' = Append(av_log,
                                       Attempt(slide, "sagemaker", sm))
                   /\ av_results' = Append(av_results, AvatarResult(slide))
                   /\ av_i' = av_i + 1
                   /\ UNCHANGED <<sagemaker_unavailable, av_failures,
                                  av_pc>>
              ELSE /\ sagemaker_unavailable' = Disables(sm.msg)
                   /\ av_failures' = av_failures \cup {sm.msg}
                   /\ LocalGeneration(slide,
                          Append(av_log, Attempt(slide, "sagemaker", sm)),
                          local_ok)
    /\ UNCHANGED <<audio_files, av_calls>>

\* return results (151)
AvatarReturn ==
    /\ av_pc = "loop"
    /\ av_i = Len(audio_files)
    /\ av_pc' = "returned"
    /\ UNCHANGED <<sagemaker_unavailable, audio_files, av_i, av_results,
                   av_log, av_failures, av_calls>>

AvatarNext ==
    \/ AvatarStart /\ UNCHANGED <<chunkVars, runVars, smoothVars, blendVars,
                                  serveVars, compVars, batchVars>>
    \/ AvatarOne /\ UNCHANGED <<chunkVars, runVars, smoothVars, blendVars,
                                serveVars, compVars, batchVars>>
    \/ AvatarReturn /\ UNCHANGED <<chunkVars, runVars, smoothVars, blendVars,
                                   serveVars, compVars, batchVars>>

SpecAvatar == AvatarInit /\ [][AvatarNext]_vars

(***************************************************************************)
(* Claims about generate_avatars                                           *)
(***************************************************************************)
\* the message contains 'not found' or 'validationerror', in any case of
\* its letters
MentionsUnavailable(msg) ==
    \/ Contains(Lower(msg), NotFound)
    \/ Contains(Lower(msg), ValidationErrorLower)

\* every audio file whose SageMaker generation failed went to the local
\* generation next
FailedGoLocal ==
    \A k \in 1..Len(av_log) :
        (av_log[k].via = "sagemaker" /\ av_log[k].raised) =>
            /\ k < Len(av_log)
            /\ av_log[k + 1].via = "local"
            /\ av_log[k + 1].slide_id = av_log[k].slide_id

\* the returned list has one entry per audio file, in input order
OnePerAudio ==
    av_pc = "returned" =>
        /\ Len(av_results) = Len(audio_files)
        /\ \A k \in 1..Len(audio_files) :
               av_results[k].slide_id = audio_files[k]

\* the step invokes SageMaker
InvokesSageMaker ==
    \E k \in 1..Len(av_log') :
        /\ av_log'[k].via = "sagemaker"
        /\ k > Len(av_log) \/ av_log[k] # av_log'[k]

\* C30: with an AWS provider and a configured endpoint, every audio file
\* whose SageMaker generation fails is generated locally instead, a call
\* that returns (no local generation raised) returns one entry per audio
\* file in input order, and once SageMaker generation has failed on this
\* agent with a message containing 'not found' or 'validationerror', no
\* later step of this or a later call invokes SageMaker
C30_SageMakerFallback ==
    /\ [](FailedGoLocal /\ OnePerAudio)
    /\ [][(\E m \in av_failures : MentionsUnavailable(m))
              => ~InvokesSageMaker]_vars

\* a second call on an agent whose SageMaker generation failed with such a
\* message in the first call has returned two avatars, both generated
\* locally without invoking SageMaker
C30_Witness ==
    /\ av_calls = 2
    /\ av_pc = "returned"
    /\ \E m \in av_failures : MentionsUnavailable(m)
    /\ Len(av_results) = 2
    /\ Len(av_log) = 2
    /\ \A k \in 1..Len(av_log) : av_log[k].via = "local"

====
